---- MODULE Spec2Model ----
(***************************************************************************)
(* A model of screen_time_checker.py: the ScreenTimeChecker object, the    *)
(* event-log store it queries, the name lookups it makes and the command   *)
(* line that drives it.                                                    *)
(*                                                                         *)
(* Text is a sequence of characters, each a one-character string, so that  *)
(* formatting, truncation and title-casing are computed and not assumed.   *)
(* A character outside ASCII is written as its code point, "U+79D2".       *)
(* Durations are whole seconds.  A printed report line is the record of    *)
(* the values its f-string interpolates.                                   *)
(***************************************************************************)
EXTENDS Integers, Sequences, FiniteSets, TLC

VARIABLES
    db_state,     \* the store: "absent", "inaccessible", "query_error", "ok"
    zobject,      \* the rows of table ZOBJECT, in rowid order
    now,          \* datetime.now(), as a Unix timestamp
    utc_offset,   \* the local time zone, seconds east of UTC
    mdls_env,     \* per application directory: is the bundle there, and what mdls does
    app_names,    \* self.app_names, the name cache
    open_conns,   \* connections opened by sqlite3.connect and not yet closed
    stdout,       \* what the last operation printed
    files,        \* the export files the last operation wrote
    call,         \* the last operation and its arguments
    ret,          \* what it returned
    raised,       \* whether it ended with an uncaught exception
    lookups,      \* what the last operation consulted to resolve names
    arg           \* the argument a caller is about to pass to a pure method

vars == <<db_state, zobject, now, utc_offset, mdls_env, app_names, open_conns,
          stdout, files, call, ret, raised, lookups, arg>>

env == <<db_state, zobject, now, utc_offset, mdls_env>>

(***************************************************************************)
(* Bounds of the model.                                                    *)
(***************************************************************************)
MaxSeconds == 7500      \* format_time is applied to 0..MaxSeconds
MaxBars == 3            \* create_bar_chart is applied to lists of up to MaxBars records
MaxRows == 2            \* the event log holds up to MaxRows rows
MaxConns == 1           \* up to MaxConns connections are left open
MaxLog == 2             \* the event log the reports read holds up to MaxLog rows
MaxApps == 22           \* the ranked list is printed for up to MaxApps applications

(***************************************************************************)
(* Text.                                                                   *)
(***************************************************************************)
Miao == <<"U+79D2">>                 \* the unit of format_time's seconds form
FenZhong == <<"U+5206", "U+949F">>   \* the unit of its minutes form
XiaoShi == <<"U+5C0F", "U+65F6">>    \* the unit of its hours form

Digit(d) == CASE d = 0 -> "0" [] d = 1 -> "1" [] d = 2 -> "2" [] d = 3 -> "3"
              [] d = 4 -> "4" [] d = 5 -> "5" [] d = 6 -> "6" [] d = 7 -> "7"
              [] d = 8 -> "8" [] d = 9 -> "9"

RECURSIVE Digits(_)
\* str(n) of a natural number: what "{n:.0f}" prints for an int
Digits(n) == IF n < 10 THEN <<Digit(n)>> ELSE Append(Digits(n \div 10), Digit(n % 10))

RECURSIVE PowMod(_, _, _)
\* b^e mod m, by squaring
PowMod(b, e, m) ==
    IF e = 0 THEN 1 % m
    ELSE IF e % 2 = 1 THEN (b * PowMod(b, e - 1, m)) % m
    ELSE (PowMod(b, e \div 2, m) * PowMod(b, e \div 2, m)) % m

RECURSIVE Log2Floor(_, _)
\* the largest b with d * 2^b <= n, for n >= d
Log2Floor(n, d) == IF 2 * d <= n THEN 1 + Log2Floor(n, 2 * d) ELSE 0

(***************************************************************************)
(* "{seconds/60:.1f}": seconds/60 is the double nearest to the quotient,   *)
(* and .1f rounds that double's exact value to one decimal.  The result,   *)
(* in tenths.  Where the quotient lies exactly between two tenths the      *)
(* double decides: it is the quotient itself when 60 divides               *)
(* seconds * 2^e (then the tie goes to the even tenth), and otherwise lies *)
(* below or above it as the 53-bit significand was rounded down or up.     *)
(***************************************************************************)
MinutesTenths(seconds) ==
    LET q == (seconds * 10) \div 60
        r == (seconds * 10) % 60
        e == 52 - Log2Floor(seconds, 60)
        rem == (seconds * PowMod(2, e, 60)) % 60
    IN  IF 2 * r < 60 THEN q
        ELSE IF 2 * r > 60 THEN q + 1
        ELSE IF rem = 0 THEN q + (q % 2)
        ELSE IF 2 * rem < 60 THEN q
        ELSE q + 1

format_time_keeps_hours(seconds) ==
    IF seconds < 60 THEN Digits(seconds) \o Miao
    ELSE IF seconds < 3600
    THEN LET t == MinutesTenths(seconds)
         IN  Digits(t \div 10) \o <<".", Digit(t % 10)>> \o FenZhong
    ELSE LET hours == seconds \div 3600
             minutes == (seconds % 3600) \div 60
         IN  Digits(hours) \o XiaoShi \o Digits(minutes) \o FenZhong

format_time(seconds) ==
    IF seconds < 60 THEN Digits(seconds) \o Miao
    ELSE IF seconds < 3600
    THEN LET t == MinutesTenths(seconds)
         IN  Digits(t \div 10) \o <<".", Digit(t % 10)>> \o FenZhong
    ELSE LET hours == seconds \div 3600
             minutes == (seconds % 3600) \div 60
         IN  IF minutes > 0
             THEN Digits(hours) \o XiaoShi \o Digits(minutes) \o FenZhong
             ELSE Digits(hours) \o <<".", "0">> \o XiaoShi

(***************************************************************************)
(* Application identifiers and names.  A bundle identifier is kept split   *)
(* at its last ".": [prefix, last], so that bundle_id.split('.')[-1] is    *)
(* its last component.                                                     *)
(***************************************************************************)
LowerAlpha == <<"a", "b", "c", "d", "e", "f", "g", "h", "i", "j", "k", "l", "m",
                "n", "o", "p", "q", "r", "s", "t", "u", "v", "w", "x", "y", "z">>
UpperAlpha == <<"A", "B", "C", "D", "E", "F", "G", "H", "I", "J", "K", "L", "M",
                "N", "O", "P", "Q", "R", "S", "T", "U", "V", "W", "X", "Y", "Z">>

IsLower(c) == \E i \in 1..26 : LowerAlpha[i] = c
IsUpper(c) == \E i \in 1..26 : UpperAlpha[i] = c
IsCased(c) == IsLower(c) \/ IsUpper(c)
Upper(c) == IF IsLower(c) THEN UpperAlpha[CHOOSE i \in 1..26 : LowerAlpha[i] = c] ELSE c
Lower(c) == IF IsUpper(c) THEN LowerAlpha[CHOOSE i \in 1..26 : UpperAlpha[i] = c] ELSE c

\* str.title(): a cased character is upper-cased after an uncased one (or at
\* the start) and lower-cased after a cased one
Title(text) ==
    [i \in 1..Len(text) |->
        IF i > 1 /\ IsCased(text[i - 1]) THEN Lower(text[i]) ELSE Upper(text[i])]

IsSpace(c) == c \in {" ", "\n", "\t"}

RECURSIVE LStrip(_)
LStrip(text) ==
    IF text # <<>> /\ IsSpace(Head(text)) THEN LStrip(Tail(text)) ELSE text

RECURSIVE RStrip(_)
RStrip(text) ==
    IF text # <<>> /\ IsSpace(text[Len(text)])
    THEN RStrip(SubSeq(text, 1, Len(text) - 1))
    ELSE text

\* str.strip()
Strip(text) == LStrip(RStrip(text))

\* the dict literal common_apps
common_apps_table ==
    {
      [id |-> [prefix |-> "com.apple", last |-> <<"S", "a", "f", "a", "r", "i">>],
       name |-> <<"S", "a", "f", "a", "r", "i">>],
      [id |-> [prefix |-> "com.microsoft", last |-> <<"V", "S", "C", "o", "d", "e">>],
       name |-> <<"V", "i", "s", "u", "a", "l", " ", "S", "t", "u", "d", "i", "o", " ", "C", "o", "d", "e">>],
      [id |-> [prefix |-> "com.apple", last |-> <<"f", "i", "n", "d", "e", "r">>],
       name |-> <<"F", "i", "n", "d", "e", "r">>],
      [id |-> [prefix |-> "com.apple", last |-> <<"s", "y", "s", "t", "e", "m", "p", "r", "e", "f", "e", "r", "e", "n", "c", "e", "s">>],
       name |-> <<"U+7CFB", "U+7EDF", "U+8BBE", "U+7F6E">>],
      [id |-> [prefix |-> "com.tencent", last |-> <<"x", "i", "n", "W", "e", "C", "h", "a", "t">>],
       name |-> <<"U+5FAE", "U+4FE1">>],
      [id |-> [prefix |-> "com.apple", last |-> <<"m", "a", "i", "l">>],
       name |-> <<"U+90AE", "U+4EF6">>],
      [id |-> [prefix |-> "com.apple", last |-> <<"m", "u", "s", "i", "c">>],
       name |-> <<"U+97F3", "U+4E50">>],
      [id |-> [prefix |-> "com.apple", last |-> <<"t", "v">>],
       name |-> <<"T", "V">>],
      [id |-> [prefix |-> "com.apple", last |-> <<"p", "h", "o", "t", "o", "s">>],
       name |-> <<"U+7167", "U+7247">>],
      [id |-> [prefix |-> "com.apple", last |-> <<"n", "o", "t", "e", "s">>],
       name |-> <<"U+5907", "U+5FD8", "U+5F55">>],
      [id |-> [prefix |-> "com.apple", last |-> <<"r", "e", "m", "i", "n", "d", "e", "r", "s">>],
       name |-> <<"U+63D0", "U+9192", "U+4E8B", "U+9879">>],
      [id |-> [prefix |-> "com.apple", last |-> <<"c", "a", "l", "e", "n", "d", "a", "r">>],
       name |-> <<"U+65E5", "U+5386">>],
      [id |-> [prefix |-> "com.apple", last |-> <<"f", "a", "c", "e", "t", "i", "m", "e">>],
       name |-> <<"F", "a", "c", "e", "T", "i", "m", "e">>],
      [id |-> [prefix |-> "com.apple", last |-> <<"m", "e", "s", "s", "a", "g", "e", "s">>],
       name |-> <<"U+4FE1", "U+606F">>]
    }

in_common_apps(bundle_id) == \E e \in common_apps_table : e.id = bundle_id
common_apps(bundle_id) == (CHOOSE e \in common_apps_table : e.id = bundle_id).name

(***************************************************************************)
(* The operating system's side of get_app_name.  mdls_env[i] says what     *)
(* probing the i-th directory of app_paths gives:                          *)
(*   "missing"  os.path.exists is false                                    *)
(*   "timeout"  run raises (TimeoutExpired, or mdls cannot be started)     *)
(*   "nonzero"  mdls exits with a non-zero return code                     *)
(*   "blank"    mdls prints only white space                               *)
(*   "null"     mdls prints (null)                                         *)
(*   "named"    mdls prints a display name                                 *)
(***************************************************************************)
app_dirs == <<"/Applications/", "/System/Applications/", "/Applications/Utilities/">>

MdlsOutcomes == {"missing", "timeout", "nonzero", "blank", "null", "named"}

NullText == <<"(", "n", "u", "l", "l", ")">>

\* the display name the i-th directory's bundle carries
DisplayNameAt(i, app_name) == app_name \o <<" ", Digit(i)>>

\* run(["mdls", "-name", "kMDItemDisplayName", "-r", app_path], ..., timeout=5)
mdls_run(outcome, i, app_name) ==
    [raises |-> outcome = "timeout",
     returncode |-> IF outcome = "nonzero" THEN 1 ELSE 0,
     stdout |-> CASE outcome = "named" -> DisplayNameAt(i, app_name) \o <<"\n">>
                  [] outcome = "null" -> NullText
                  [] outcome = "blank" -> <<" ", "\n">>
                  [] OTHER -> <<>>]

\* what one turn of the loop over app_paths makes of the result of run
probe_result(result) ==
    IF result.raises THEN [found |-> FALSE, runs |-> 1]
    ELSE IF result.returncode = 0 /\ Strip(result.stdout) # <<>>
            /\ Strip(result.stdout) # NullText
    THEN [found |-> TRUE, runs |-> 1, name |-> Strip(result.stdout)]
    ELSE [found |-> FALSE, runs |-> 1]

\* one turn of the loop over app_paths: the name it returns, if it returns
probe(mdls, i, app_name) ==
    IF mdls[i] = "missing" THEN [found |-> FALSE, runs |-> 0]
    ELSE probe_result(mdls_run(mdls[i], i, app_name))

\* the loop over app_paths, from its i-th turn on, after `runs` calls of mdls
RECURSIVE probe_paths(_, _, _, _)
probe_after(mdls, i, app_name, runs, p) ==
    IF p.found THEN [found |-> TRUE, runs |-> runs + p.runs, name |-> p.name]
    ELSE probe_paths(mdls, i + 1, app_name, runs + p.runs)

probe_paths(mdls, i, app_name, runs) ==
    IF i > Len(app_dirs) THEN [found |-> FALSE, runs |-> runs]
    ELSE probe_after(mdls, i, app_name, runs, probe(mdls, i, app_name))

\* cache[key] = value
Put(cache, key, value) == (key :> value) @@ cache

\* self.app_names[bundle_id] = name; return name
remember(cache, bundle_id, name, runs) ==
    [name |-> name, cache |-> Put(cache, bundle_id, name), static |-> 1, mdls |-> runs]

\* the end of get_app_name, after the loop over app_paths gave p
fallback(cache, bundle_id, p) ==
    remember(cache, bundle_id, IF p.found THEN p.name ELSE Title(bundle_id.last), p.runs)

\* the uncached branches of get_app_name
resolve(cache, mdls, bundle_id) ==
    IF in_common_apps(bundle_id)
    THEN remember(cache, bundle_id, common_apps(bundle_id), 0)
    ELSE fallback(cache, bundle_id, probe_paths(mdls, 1, bundle_id.last, 0))

get_app_name_cache_for_common_only(cache, mdls, bundle_id) ==
    IF bundle_id \in DOMAIN cache /\ in_common_apps(bundle_id)
    THEN [name |-> cache[bundle_id], cache |-> cache, static |-> 0, mdls |-> 0]
    ELSE resolve([b \in {} |-> <<>>], mdls, bundle_id)

\* get_app_name, from the cache `cache` and in the environment `mdls`: the
\* name returned, the cache it leaves, and how often it consulted the static
\* table and ran mdls
get_app_name(cache, mdls, bundle_id) ==
    IF bundle_id \in DOMAIN cache
    THEN [name |-> cache[bundle_id], cache |-> cache, static |-> 0, mdls |-> 0]
    ELSE resolve(cache, mdls, bundle_id)

(***************************************************************************)
(* The event-log store.  A row of ZOBJECT is                               *)
(*   [ZSTREAMNAME, ZVALUESTRING, ZSTARTDATE, ZENDDATE]                     *)
(* with ZVALUESTRING either NULL or a bundle identifier ('' is the         *)
(* identifier EmptyString), and the dates in seconds of the Mac epoch.     *)
(***************************************************************************)
epoch_offset == 978307200
SecondsPerDay == 86400
SecondsPerHour == 3600

NULL == [null |-> TRUE, value |-> [prefix |-> "", last |-> <<>>]]
EmptyString == [prefix |-> "", last |-> <<>>]
Value(bundle_id) == [null |-> FALSE, value |-> bundle_id]

RECURSIVE SumOver(_, _)
\* the sum of f[x] over the finite set S
SumOver(S, f) ==
    IF S = {} THEN 0
    ELSE LET x == CHOOSE y \in S : TRUE IN f[x] + SumOver(S \ {x}, f)

\* since = int((datetime.now() - timedelta(days=days)).timestamp()) - self.epoch_offset
Since(t, days) == (t - days * SecondsPerDay) - epoch_offset

\* the WHERE clause the two queries share
where(row, since) ==
    /\ row.ZSTREAMNAME \in {"/app/usage", "/app/inFocus"}
    /\ row.ZSTARTDATE > since
    /\ ~row.ZVALUESTRING.null
    /\ row.ZVALUESTRING.value # EmptyString

\* the tuples of S that ORDER BY seconds DESC puts before x, and those of
\* the same seconds as x
Ahead(S, x) == {y \in S : y[2] > x[2]}
Peers(S, x) == {y \in S : y[2] = x[2]}
Tied(S) == {x \in S : Peers(S, x) # {x}}

\* the ways to order equal keys: a place for each tuple among its peers
TieBreaks(S) ==
    {p \in [Tied(S) -> 1..Cardinality(S)] :
        \A x \in Tied(S) :
            /\ p[x] <= Cardinality(Peers(S, x))
            /\ \A y \in Peers(S, x) \ {x} : p[y] # p[x]}

\* the place of x in the result, under the tie-break p
Place(S, p, x) == Cardinality(Ahead(S, x)) + (IF x \in DOMAIN p THEN p[x] ELSE 1)

\* ORDER BY seconds DESC: every order of S by falling seconds; SQL leaves the
\* order of equal keys open
OrderedDesc(S) ==
    {[i \in 1..Cardinality(S) |-> CHOOSE x \in S : Place(S, p, x) = i] : p \in TieBreaks(S)}

\* the aggregating query of get_usage_data: the result lists it may return
usage_sql(rows, since) ==
    LET hit == {i \in 1..Len(rows) : where(rows[i], since)}
        ids == {rows[i].ZVALUESTRING.value : i \in hit}
        dur == [i \in hit |-> rows[i].ZENDDATE - rows[i].ZSTARTDATE]
        seconds == [b \in ids |-> SumOver({i \in hit : rows[i].ZVALUESTRING.value = b}, dur)]
    IN  OrderedDesc({<<b, seconds[b]>> : b \in {c \in ids : seconds[c] > 60}})

RECURSIVE InsertByStart(_, _)
\* `rec` put into the list `recs`, ordered by start time, behind its equals
InsertByStart(recs, rec) ==
    IF recs = <<>> THEN <<rec>>
    ELSE IF rec[2] < Head(recs)[2] THEN <<rec>> \o recs
    ELSE <<Head(recs)>> \o InsertByStart(Tail(recs), rec)

RECURSIVE hourly_rows(_, _, _)
\* the raw-interval query of get_hourly_usage on rows 1..n: the tuples
\* (bundle_id, start_time, end_time, duration) ORDER BY ZSTARTDATE.  Rows of
\* equal start are kept in rowid order: the caller adds them up, and no
\* order of equals changes a sum.
hourly_rows(rows, since, n) ==
    IF n = 0 THEN <<>>
    ELSE LET row == rows[n]
             before == hourly_rows(rows, since, n - 1)
         IN  IF where(row, since) /\ row.ZENDDATE - row.ZSTARTDATE > 60
             THEN InsertByStart(before,
                                <<row.ZVALUESTRING.value,
                                  row.ZSTARTDATE + 978307200,
                                  row.ZENDDATE + 978307200,
                                  row.ZENDDATE - row.ZSTARTDATE>>)
             ELSE before

hourly_sql(rows, since) == hourly_rows(rows, since, Len(rows))

\* a printed line: which print statement, and the values it interpolates
line(kind, args) == [kind |-> kind, args |-> args]

(***************************************************************************)
(* check_database: what it returns and prints.  Its connection is closed   *)
(* at once, or never opened.                                               *)
(***************************************************************************)
check_database(state) ==
    IF state = "absent"
    THEN [ok |-> FALSE,
          out |-> <<line("db_not_found", <<>>), line("need_macos", <<>>)>>]
    ELSE IF state = "inaccessible"
    THEN [ok |-> FALSE,
          out |-> <<line("db_no_access", <<>>), line("fix_heading", <<>>),
                    line("fix_step_1", <<>>), line("fix_step_2", <<>>),
                    line("fix_step_3", <<>>)>>]
    ELSE [ok |-> TRUE, out |-> <<>>]

(***************************************************************************)
(* get_usage_data: the outcomes [usage, out, leaked] it may have.  Where   *)
(* the query raises, the handler returns without conn.close(): the         *)
(* connection is left to the garbage collector, which may reclaim it as    *)
(* the frame goes (leaked = 0) or later (leaked = 1).                      *)
(***************************************************************************)
get_usage_data_raises(state, rows, t, days) ==
    LET chk == check_database(state)
    IN  IF ~chk.ok THEN {[usage |-> <<>>, out |-> chk.out, leaked |-> 0, raised |-> FALSE]}
        ELSE IF state = "query_error"
        THEN {[usage |-> <<>>, out |-> <<>>, leaked |-> k, raised |-> TRUE] : k \in {0, 1}}
        ELSE {[usage |-> u, out |-> <<>>, leaked |-> 0, raised |-> FALSE] :
                  u \in usage_sql(rows, Since(t, days))}

get_usage_data(state, rows, t, days) ==
    LET chk == check_database(state)
    IN  IF ~chk.ok THEN {[usage |-> <<>>, out |-> chk.out, leaked |-> 0, raised |-> FALSE]}
        ELSE IF state = "query_error"
        THEN {[usage |-> <<>>, out |-> <<line("query_failed", <<>>)>>, leaked |-> k,
               raised |-> FALSE] : k \in {0, 1}}
        ELSE {[usage |-> u, out |-> <<>>, leaked |-> 0, raised |-> FALSE] :
                  u \in usage_sql(rows, Since(t, days))}

(***************************************************************************)
(* create_bar_chart.  int((seconds / max_seconds) * max_width) is          *)
(* (seconds * max_width) \div max_seconds: for whole seconds the double    *)
(* product reaches an integer exactly when the exact one does.             *)
(***************************************************************************)
Filled == "U+2588"
Empty == "U+2591"

Repeat(glyph, n) == [i \in 1..(IF n > 0 THEN n ELSE 0) |-> glyph]

RECURSIVE SumRange(_, _, _)
\* the seconds of the records lo..hi of usage_data, added up
SumRange(usage_data, lo, hi) ==
    IF lo > hi THEN 0
    ELSE IF lo = hi THEN usage_data[lo][2]
    ELSE SumRange(usage_data, lo, (lo + hi) \div 2)
         + SumRange(usage_data, (lo + hi) \div 2 + 1, hi)

\* sum(seconds for _, seconds in usage_data)
SumSeconds(usage_data) == SumRange(usage_data, 1, Len(usage_data))

\* max(seconds for _, seconds in usage_data), of a non-empty list
MaxSecondsOf(usage_data) ==
    CHOOSE m \in {usage_data[i][2] : i \in 1..Len(usage_data)} :
        \A i \in 1..Len(usage_data) : usage_data[i][2] <= m

\* round(num / den), halves to the even neighbour
Round(num, den) ==
    LET q == num \div den
        r == num % den
    IN  IF 2 * r < den THEN q
        ELSE IF 2 * r > den THEN q + 1
        ELSE q + (q % 2)

Truncated(app_name) ==
    IF Len(app_name) > 15 THEN SubSeq(app_name, 1, 12) \o <<".", ".", ".">> ELSE app_name

bar_length_rounded(seconds, max_seconds, max_width) ==
    Round(seconds * max_width, max_seconds)

bar_length_of_total(seconds, max_seconds, max_width) ==
    (seconds * max_width) \div (max_seconds + 1)

\* bar_length = int((seconds / max_seconds) * max_width)
bar_length(seconds, max_seconds, max_width) ==
    (seconds * max_width) \div max_seconds

\* the bar of one record
bar_of(length, max_width) == Repeat(Filled, length) \o Repeat(Empty, max_width - length)

\* one turn of the loop of create_bar_chart, once get_app_name gave r: the
\* chart line appended, the cache and the lookups carried on
bar_step(usage_data, i, max_width, st, r) ==
    [lines |-> Append(st.lines,
                      <<Truncated(r.name),
                        bar_of(bar_length(usage_data[i][2], MaxSecondsOf(usage_data),
                                          max_width),
                               max_width),
                        <<usage_data[i][2], SumSeconds(usage_data)>>,
                        format_time(usage_data[i][2])>>),
     cache |-> r.cache,
     static |-> st.static + r.static,
     mdls |-> st.mdls + r.mdls]

RECURSIVE bar_loop(_, _, _, _, _, _)
\* the turns lo..hi of the loop of create_bar_chart, in their order, from
\* st, which is what the turns before have built: the chart lines, the name
\* cache, the lookups made.  The outcomes they may have.
bar_loop(usage_data, lo, hi, max_width, mdls, st) ==
    IF lo > hi THEN {st}
    ELSE IF lo = hi
    THEN {bar_step(usage_data, lo, max_width, st,
                   get_app_name(st.cache, mdls, usage_data[lo][1]))}
    ELSE UNION {bar_loop(usage_data, (lo + hi) \div 2 + 1, hi, max_width, mdls, half) :
                    half \in bar_loop(usage_data, lo, (lo + hi) \div 2, max_width, mdls, st)}

\* create_bar_chart: the outcomes it may have
create_bar_chart(cache, mdls, usage_data, max_width) ==
    IF usage_data = <<>>
    THEN {[lines |-> <<>>, cache |-> cache, static |-> 0, mdls |-> 0]}
    ELSE bar_loop(usage_data, 1, Len(usage_data), max_width, mdls,
                  [lines |-> <<>>, cache |-> cache, static |-> 0, mdls |-> 0])

(***************************************************************************)
(* print_usage_report, given the outcome u of its get_usage_data call:     *)
(* what it prints (after what get_usage_data printed), the name cache it   *)
(* leaves and the lookups it made.                                         *)
(***************************************************************************)
period(days) ==
    IF days = 1 THEN <<"past_24_hours">>
    ELSE IF days = 7 THEN <<"past_7_days">>
    ELSE IF days = 30 THEN <<"past_30_days">>
    ELSE <<"past_days", days>>

\* one record's line of the ranked list, once get_app_name gave r
ranked_step(usage_data, i, total_seconds, st, r) ==
    [out |-> Append(st.out,
                    line("record", <<i, r.name, format_time(usage_data[i][2]),
                                     <<usage_data[i][2], total_seconds>>>>)),
     cache |-> r.cache,
     static |-> st.static + r.static,
     mdls |-> st.mdls + r.mdls,
     displayed_seconds |-> st.displayed_seconds + usage_data[i][2],
     written |-> <<>>]

page_end_counts_all(usage_data, total_seconds, st) ==
    [st EXCEPT !.out =
        Append(st.out, line("more", <<Len(usage_data), format_time(total_seconds)>>))]

\* the body of "if i >= 20": the line for what the list leaves out
page_end(usage_data, total_seconds, st) ==
    IF Len(usage_data) - 20 > 0
    THEN [st EXCEPT !.out =
             Append(st.out,
                    line("more", <<Len(usage_data) - 20,
                                   format_time(total_seconds - st.displayed_seconds)>>))]
    ELSE st

\* one turn of the loop over the ranked list: its print and, at the 20th,
\* the body of "if i >= 20"
ranked_turn(usage_data, i, total_seconds, st, r) ==
    IF i >= 20
    THEN page_end(usage_data, total_seconds,
                  ranked_step(usage_data, i, total_seconds, st, r))
    ELSE ranked_step(usage_data, i, total_seconds, st, r)

\* the last turn of the loop: the break leaves it at the 20th record
last_turn(usage_data) == IF Len(usage_data) < 20 THEN Len(usage_data) ELSE 20

RECURSIVE ranked_loop(_, _, _, _, _, _)
\* the turns lo..hi of the loop over the ranked list, in their order (i counts
\* from 1), from st: the outcomes they may have
ranked_loop(usage_data, lo, hi, total_seconds, mdls, st) ==
    IF lo > hi THEN {st}
    ELSE IF lo = hi
    THEN {ranked_turn(usage_data, lo, total_seconds, st,
                      get_app_name(st.cache, mdls, usage_data[lo][1]))}
    ELSE UNION {ranked_loop(usage_data, (lo + hi) \div 2 + 1, hi, total_seconds, mdls, half) :
                    half \in ranked_loop(usage_data, lo, (lo + hi) \div 2, total_seconds,
                                         mdls, st)}

\* the visual branch, once create_bar_chart gave chart
visual_report(out, days, total_text, chart) ==
    [out |-> out
             \o <<line("rule", <<>>), line("battery", <<>>), line("rule", <<>>),
                  line("period", period(days)), line("blank", <<>>),
                  line("total_heading", <<>>), line("total", <<total_text>>),
                  line("blank", <<>>), line("apps_heading", <<>>), line("rule", <<>>)>>
             \o [i \in 1..Len(chart.lines) |-> line("bar", chart.lines[i])]
             \o <<line("rule", <<>>)>>,
     cache |-> chart.cache, static |-> chart.static, mdls |-> chart.mdls,
     displayed_seconds |-> 0, written |-> <<>>]

\* the head of the ranked list
ranked_head(out, days, debug, total_seconds, total_text, apps) ==
    out \o <<line("title", period(days)), line("double_rule", <<>>),
             line("total", <<total_text>>)>>
        \o (IF debug THEN <<line("debug_totals", <<total_seconds, apps>>)>> ELSE <<>>)
        \o <<line("rule", <<>>)>>

\* the end of the ranked branch, after its loop left st
ranked_tail(usage_data, debug, total_seconds, manual_total, st) ==
    IF debug /\ Len(usage_data) <= 20
    THEN [st EXCEPT !.out =
             st.out
             \o <<line("verify_heading", <<>>), line("verify_auto", <<total_seconds>>),
                  line("verify_manual", <<manual_total>>),
                  line("verify_displayed", <<st.displayed_seconds>>)>>
             \o (IF total_seconds - manual_total > 1 \/ manual_total - total_seconds > 1
                 THEN <<line("verify_warning", <<>>)>>
                 ELSE <<>>)]
    ELSE st

\* print_usage_report past its no-data test, with total_seconds summed
report_body(usage_data, out, cache, mdls, days, debug, visual, total_seconds) ==
    IF visual
    THEN {visual_report(out, days, format_time(total_seconds), chart) :
              chart \in create_bar_chart(cache, mdls, usage_data, 30)}
    ELSE {ranked_tail(usage_data, debug, total_seconds, total_seconds, st) :
              st \in ranked_loop(usage_data, 1, last_turn(usage_data), total_seconds, mdls,
                                 [out |-> ranked_head(out, days, debug, total_seconds,
                                                      format_time(total_seconds),
                                                      Len(usage_data)),
                                  cache |-> cache, static |-> 0, mdls |-> 0,
                                  displayed_seconds |-> 0, written |-> <<>>])}

\* print_usage_report: the outcomes it may have
print_usage_report(u, cache, mdls, days, debug, visual) ==
    IF u.usage = <<>>
    THEN {[out |-> u.out \o <<line("no_data", <<>>)>>, cache |-> cache, static |-> 0,
           mdls |-> 0, displayed_seconds |-> 0, written |-> <<>>]}
    ELSE report_body(u.usage, u.out, cache, mdls, days, debug, visual, SumSeconds(u.usage))

(***************************************************************************)
(* export_to_json, given the outcome u of its get_usage_data call: what it *)
(* prints, and the document it writes, if any.                             *)
(***************************************************************************)
\* one entry of export_data["apps"], once get_app_name gave r
export_step(usage_data, i, st, r) ==
    [apps |-> Append(st.apps,
                     [bundle_id |-> usage_data[i][1],
                      app_name |-> r.name,
                      usage_seconds |-> usage_data[i][2],
                      usage_formatted |-> format_time(usage_data[i][2])]),
     cache |-> r.cache,
     static |-> st.static + r.static,
     mdls |-> st.mdls + r.mdls]

RECURSIVE export_loop(_, _, _, _, _)
\* the turns lo..hi of the loop over usage_data, in their order, from st: the
\* outcomes they may have
export_loop(usage_data, lo, hi, mdls, st) ==
    IF lo > hi THEN {st}
    ELSE IF lo = hi
    THEN {export_step(usage_data, lo, st, get_app_name(st.cache, mdls, usage_data[lo][1]))}
    ELSE UNION {export_loop(usage_data, (lo + hi) \div 2 + 1, hi, mdls, half) :
                    half \in export_loop(usage_data, lo, (lo + hi) \div 2, mdls, st)}

\* f"screen_time_{days}days_{timestamp}.json"
export_filename(days, t) == <<"screen_time_", days, "days_", t, ".json">>

\* the file written and the line printed, after the loop left st
export_write(usage_data, out, t, days, st) ==
    [out |-> out \o <<line("exported", <<export_filename(days, t)>>)>>,
     written |-> <<[filename |-> export_filename(days, t),
                    data |-> [export_time |-> t, period_days |-> days,
                              total_apps |-> Len(usage_data), apps |-> st.apps]]>>,
     cache |-> st.cache, static |-> st.static, mdls |-> st.mdls]

export_to_json(u, cache, mdls, t, days) ==
    IF u.usage = <<>>
    THEN {[out |-> u.out \o <<line("no_export_data", <<>>)>>, written |-> <<>>,
           cache |-> cache, static |-> 0, mdls |-> 0]}
    ELSE {export_write(u.usage, u.out, t, days, st) :
              st \in export_loop(u.usage, 1, Len(u.usage), mdls,
                                 [apps |-> <<>>, cache |-> cache, static |-> 0,
                                  mdls |-> 0])}

(***************************************************************************)
(* get_hourly_usage: the outcomes [hourly, out, leaked] it may have.       *)
(***************************************************************************)
EmptyDict == [h \in {} |-> 0]

\* datetime.fromtimestamp(start_time).hour, in the local time zone
start_hour_of(start_time, tz) == ((start_time + tz) \div SecondsPerHour) % 24

start_hour_of_end(record, tz) == start_hour_of(record[3], tz)

\* the bucket an interval is counted in
bucket_of(record, tz) == start_hour_of(record[2], tz)

RECURSIVE hourly_loop(_, _, _, _)
\* the loop over records from the i-th on, with the buckets filled so far
hourly_loop(records, i, tz, hourly_usage) ==
    IF i > Len(records) THEN hourly_usage
    ELSE LET start_hour == bucket_of(records[i], tz)
             duration == records[i][4]
         IN  hourly_loop(records, i + 1, tz,
                         [hourly_usage EXCEPT ![start_hour] = @ + duration])

get_hourly_usage(state, rows, t, tz, days) ==
    LET chk == check_database(state)
    IN  IF ~chk.ok THEN {[hourly |-> EmptyDict, out |-> chk.out, leaked |-> 0]}
        ELSE IF state = "query_error"
        THEN {[hourly |-> EmptyDict, out |-> <<line("hourly_query_failed", <<>>)>>,
               leaked |-> k] : k \in {0, 1}}
        ELSE {[hourly |-> hourly_loop(hourly_sql(rows, Since(t, days)), 1, tz,
                                      [h \in 0..23 |-> 0]),
               out |-> <<>>, leaked |-> 0]}

(***************************************************************************)
(* create_hourly_chart: the chart's lines, top row first.                  *)
(***************************************************************************)
\* max(f.values()), of a non-empty dict f with keys S
MaxValue(f, S) == CHOOSE m \in {f[x] : x \in S} : \A x \in S : f[x] <= m

\* hourly_usage.get(hour, 0)
Get(hourly_usage, hour) ==
    IF hour \in DOMAIN hourly_usage THEN hourly_usage[hour] ELSE 0

column_height_rounded(usage, max_usage, max_height) == Round(usage * max_height, max_usage)

\* height = int((usage / max_usage) * max_height)
column_height(usage, max_usage, max_height) == (usage * max_height) \div max_usage

\* f"{hour:2d}".ljust(3)
hour_label(hour) ==
    (IF hour < 10 THEN <<" ">> \o Digits(hour) ELSE Digits(hour)) \o <<" ">>

RECURSIVE hour_labels(_)
\* the labels of hours hour, hour + 3, ... below 24
hour_labels(hour) ==
    IF hour >= 24 THEN <<>> ELSE hour_label(hour) \o hour_labels(hour + 3)

create_hourly_chart(hourly_usage, max_height) ==
    IF DOMAIN hourly_usage = {} THEN <<>>
    ELSE LET m == MaxValue(hourly_usage, DOMAIN hourly_usage)
             max_usage == IF m = 0 THEN 1 ELSE m
             row(level) ==
                 [c \in 1..24 |->
                     IF column_height(Get(hourly_usage, c - 1), max_usage, max_height) >= level
                     THEN Filled ELSE " "]
         IN  [k \in 1..max_height |-> row(max_height + 1 - k)]
             \o <<Repeat("-", 24), hour_labels(0)>>

(***************************************************************************)
(* The operations as a caller sees them: each outcome says what was        *)
(* printed, what the name cache became, which files were written, whether  *)
(* a connection was left open and whether an exception escaped.            *)
(***************************************************************************)
\* the outcomes of an operation whose call of get_usage_data ended as u:
\* those in `rest` of what follows the call, unless the call raised
After(u, cache, rest) ==
    IF u.raised
    THEN {[out |-> u.out, cache |-> cache, static |-> 0, mdls |-> 0,
           written |-> <<>>, leaked |-> u.leaked, raised |-> TRUE]}
    ELSE {[out |-> r.out, cache |-> r.cache, static |-> r.static, mdls |-> r.mdls,
           written |-> r.written, leaked |-> u.leaked, raised |-> FALSE] : r \in rest}

report(state, rows, t, mdls, cache, days, debug, visual) ==
    UNION { After(u, cache, print_usage_report(u, cache, mdls, days, debug, visual)) :
                u \in get_usage_data(state, rows, t, days) }

export(state, rows, t, mdls, cache, days) ==
    UNION { After(u, cache, export_to_json(u, cache, mdls, t, days)) :
                u \in get_usage_data(state, rows, t, days) }

(***************************************************************************)
(* The initial state: a fresh ScreenTimeChecker (__init__), nothing        *)
(* printed, nothing called.                                                *)
(***************************************************************************)
NoCall == [op |-> "none"]
NoLookups == [static |-> 0, mdls |-> 0]
EmptyCache == [b \in {} |-> <<>>]

Fresh ==
    /\ app_names = EmptyCache
    /\ open_conns = 0
    /\ stdout = <<>>
    /\ files = <<>>
    /\ call = NoCall
    /\ ret = <<>>
    /\ raised = FALSE
    /\ lookups = NoLookups

NoStore ==
    /\ db_state = "absent"
    /\ zobject = <<>>
    /\ now = 0
    /\ utc_offset = 0
    /\ mdls_env = <<>>

(***************************************************************************)
(* main.  argv[1] is the script, argv[2] the command (sys.argv[1]) and     *)
(* argv[3] the day count that may follow it.  Day counts stay within the   *)
(* range in which the date arithmetic of get_usage_data succeeds.          *)
(***************************************************************************)
IsDigit(c) == c \in {"0", "1", "2", "3", "4", "5", "6", "7", "8", "9"}
DigitValue(c) == CHOOSE d \in 0..9 : Digit(d) = c

RECURSIVE DigitsValue(_)
\* the number a text of digits and underscores writes
DigitsValue(text) ==
    IF text = <<>> THEN 0
    ELSE LET init == SubSeq(text, 1, Len(text) - 1)
             c == text[Len(text)]
         IN  IF c = "_" THEN DigitsValue(init) ELSE 10 * DigitsValue(init) + DigitValue(c)

\* int(text): white space around, a sign, digits with single underscores
\* between them; anything else is a ValueError (ok = FALSE)
ParseInt(text) ==
    LET t == Strip(text)
        signed == t # <<>> /\ t[1] \in {"+", "-"}
        body == IF signed THEN Tail(t) ELSE t
        well_formed ==
            /\ body # <<>>
            /\ IsDigit(body[1])
            /\ IsDigit(body[Len(body)])
            /\ \A i \in 1..Len(body) : IsDigit(body[i]) \/ body[i] = "_"
            /\ \A i \in 1..(Len(body) - 1) : ~(body[i] = "_" /\ body[i + 1] = "_")
    IN  IF well_formed
        THEN [ok |-> TRUE,
              value |-> IF signed /\ t[1] = "-" THEN 0 - DigitsValue(body)
                        ELSE DigitsValue(body)]
        ELSE [ok |-> FALSE, value |-> 0]

\* str.lower()
LowerText(text) == [i \in 1..Len(text) |-> Lower(text[i])]

Cmd1 == {<<"1">>, <<"2", "4", "h">>, <<"t", "o", "d", "a", "y">>}
Cmd7 == {<<"7">>, <<"7", "d">>, <<"w", "e", "e", "k">>}
Cmd30 == {<<"3", "0">>, <<"3", "0", "d">>, <<"m", "o", "n", "t", "h">>}
CmdVisual == {<<"v">>, <<"v", "i", "s", "u", "a", "l">>, <<"i", "p", "h", "o", "n", "e">>}
CmdExport == <<"e", "x", "p", "o", "r", "t">>
CmdDebug == <<"d", "e", "b", "u", "g">>
CmdHelp == <<"h", "e", "l", "p">>

Crash(cache) ==
    [out |-> <<>>, cache |-> cache, static |-> 0, mdls |-> 0, written |-> <<>>,
     leaked |-> 0, raised |-> TRUE]

Said(cache, out) ==
    [out |-> out, cache |-> cache, static |-> 0, mdls |-> 0, written |-> <<>>,
     leaked |-> 0, raised |-> FALSE]

\* int(text), as a branch of main takes it: the text parsed, or the ValueError
DaysOf(text) ==
    [run |-> IF ParseInt(text).ok THEN "days" ELSE "ValueError",
     days |-> ParseInt(text).value]

\* days = int(sys.argv[2]) if len(sys.argv) > 2 else 1
trailing_days(argv) ==
    IF Len(argv) > 2 THEN DaysOf(argv[3]) ELSE [run |-> "days", days |-> 1]

\* the branch of main that a command line takes: what it calls, with which
\* day count, or the exception that int() raises on the way
dispatch(argv, command) ==
    IF command \in Cmd1 THEN [do |-> "report", run |-> "days", days |-> 1]
    ELSE IF command \in Cmd7 THEN [do |-> "report", run |-> "days", days |-> 7]
    ELSE IF command \in Cmd30 THEN [do |-> "report", run |-> "days", days |-> 30]
    ELSE IF command \in CmdVisual
    THEN [do |-> "visual", run |-> trailing_days(argv).run, days |-> trailing_days(argv).days]
    ELSE IF command = CmdExport
    THEN [do |-> "export", run |-> trailing_days(argv).run, days |-> trailing_days(argv).days]
    ELSE IF command = CmdDebug
    THEN [do |-> "debug", run |-> trailing_days(argv).run, days |-> trailing_days(argv).days]
    ELSE IF command = CmdHelp THEN [do |-> "help", run |-> "days", days |-> 0]
    ELSE [do |-> "fallback", run |-> DaysOf(command).run, days |-> DaysOf(command).days]

\* main past its dispatch
run_branch(d, command, checker, state, rows, t, mdls) ==
    IF d.do = "help" THEN {Said(checker, <<line("help", <<>>)>>)}
    ELSE IF d.do = "fallback" /\ d.run = "ValueError"
    THEN {Said(checker, <<line("unknown_command", <<command>>), line("see_help", <<>>)>>)}
    ELSE IF d.run = "ValueError" THEN {Crash(checker)}
    ELSE IF d.do = "export" THEN export(state, rows, t, mdls, checker, d.days)
    ELSE report(state, rows, t, mdls, checker, d.days, d.do = "debug", d.do = "visual")

\* main on a fresh ScreenTimeChecker: the outcomes it may have
main(argv, state, rows, t, mdls) ==
    IF Len(argv) = 1
    THEN run_branch([do |-> "visual", run |-> "days", days |-> 1], <<>>, EmptyCache,
                    state, rows, t, mdls)
    ELSE run_branch(dispatch(argv, LowerText(argv[2])), LowerText(argv[2]), EmptyCache,
                    state, rows, t, mdls)

(***************************************************************************)
(* format_time on its own.                                                 *)
(***************************************************************************)
FormatTime ==
    /\ call = NoCall
    /\ call' = [op |-> "format_time", seconds |-> arg]
    /\ ret' = format_time(arg)
    /\ raised' = FALSE
    /\ stdout' = <<>>
    /\ UNCHANGED <<env, app_names, open_conns, files, lookups, arg>>

InitFormat == Fresh /\ NoStore /\ arg \in 0..MaxSeconds
NextFormat == FormatTime
SpecFormat == InitFormat /\ [][NextFormat]_vars

\* C8: format_time picks its form by range: whole seconds below 60, minutes
\* with one decimal (the nearest tenth) from 60 to below 3600, and from 3600
\* on H hours and M whole minutes when M > 0, and H.0 hours when M = 0.
C8_FormatTimeForms ==
    call.op = "format_time" =>
        LET s == call.seconds
            H == s \div 3600
            M == (s % 3600) \div 60
        IN  /\ s < 60 => ret = Digits(s) \o Miao
            /\ (60 <= s /\ s < 3600) =>
                   \E w \in 0..60, t \in 0..9 :
                       /\ ret = Digits(w) \o <<".", Digit(t)>> \o FenZhong
                       /\ 6 * (10 * w + t) - s <= 3
                       /\ s - 6 * (10 * w + t) <= 3
            /\ (s >= 3600 /\ M > 0) =>
                   ret = Digits(H) \o XiaoShi \o Digits(M) \o FenZhong
            /\ (s >= 3600 /\ M = 0) => ret = Digits(H) \o <<".", "0">> \o XiaoShi
            /\ s = 45 => ret = <<"4", "5">> \o Miao
            /\ s = 90 => ret = <<"1", ".", "5">> \o FenZhong
            /\ s = 3660 => ret = <<"1">> \o XiaoShi \o <<"1">> \o FenZhong
            /\ s = 7200 => ret = <<"2", ".", "0">> \o XiaoShi

C8_Witness ==
    /\ call.op = "format_time"
    /\ call.seconds = 7200
    /\ ret = <<"2", ".", "0">> \o XiaoShi

(***************************************************************************)
(* get_app_name on its own, while the applications installed change.       *)
(***************************************************************************)
NameBundles ==
    { [prefix |-> "com.apple", last |-> <<"S", "a", "f", "a", "r", "i">>],
      [prefix |-> "com.google", last |-> <<"C", "h", "r", "o", "m", "e">>],
      [prefix |-> "org.videolan", last |-> <<"v", "l", "c", "-", "n", "I", "g", "h", "t">>] }

GetAppName ==
    \E bundle_id \in NameBundles :
        \E r \in {get_app_name(app_names, mdls_env, bundle_id)} :
            /\ call' = [op |-> "get_app_name", bundle_id |-> bundle_id]
            /\ ret' = r.name
            /\ app_names' = r.cache
            /\ lookups' = [static |-> r.static, mdls |-> r.mdls]
            /\ raised' = FALSE
            /\ stdout' = <<>>
            /\ UNCHANGED <<env, open_conns, files, arg>>

\* an application is installed, removed, renamed, or mdls starts to fail
Install ==
    \E i \in 1..Len(app_dirs), outcome \in MdlsOutcomes :
        /\ mdls_env' = [mdls_env EXCEPT ![i] = outcome]
        /\ UNCHANGED <<db_state, zobject, now, utc_offset, app_names, open_conns,
                       stdout, files, call, ret, raised, lookups, arg>>

InitNames ==
    /\ Fresh
    /\ db_state = "absent"
    /\ zobject = <<>>
    /\ now = 0
    /\ utc_offset = 0
    /\ mdls_env \in [1..Len(app_dirs) -> MdlsOutcomes]
    /\ arg = 0
NextNames == GetAppName \/ Install
SpecNames == InitNames /\ [][NextNames]_vars

\* the first directory of app_paths whose probe yields a name, or 0
FirstNamed(mdls) ==
    IF \E i \in 1..Len(app_dirs) : mdls[i] = "named"
    THEN CHOOSE i \in 1..Len(app_dirs) :
             mdls[i] = "named" /\ \A j \in 1..(i - 1) : mdls[j] # "named"
    ELSE 0

\* C10: a call of get_app_name returns normally, leaves its id cached with
\* the name it returned, changes or removes no entry that was cached, answers
\* a cached id from the cache alone, and resolves an uncached id from the
\* static table, else from the first directory whose mdls lookup yields a
\* name, else as the title-cased last component.
C10_CacheAppendOnly ==
    [][(call'.op = "get_app_name" /\ mdls_env' = mdls_env) =>
        LET id == call'.bundle_id
        IN  /\ ~raised'
            /\ id \in DOMAIN app_names'
            /\ app_names'[id] = ret'
            /\ \A b \in DOMAIN app_names :
                   b \in DOMAIN app_names' /\ app_names'[b] = app_names[b]
            /\ DOMAIN app_names' = DOMAIN app_names \cup {id}
            /\ id \in DOMAIN app_names =>
                   ret' = app_names[id] /\ lookups' = NoLookups
            /\ (id \notin DOMAIN app_names /\ in_common_apps(id)) =>
                   ret' = common_apps(id) /\ lookups'.mdls = 0
            /\ (id \notin DOMAIN app_names /\ ~in_common_apps(id)) =>
                   IF FirstNamed(mdls_env) # 0
                   THEN ret' = DisplayNameAt(FirstNamed(mdls_env), id.last)
                   ELSE ret' = Title(id.last)
    ]_vars

\* a cached name outlives the application's display name changing: the id
\* was resolved by title-casing, a display name is installed since, and the
\* repeated call still answers from the cache
C10_Witness ==
    /\ call.op = "get_app_name"
    /\ call.bundle_id \notin DOMAIN EmptyCache
    /\ ~in_common_apps(call.bundle_id)
    /\ lookups = NoLookups
    /\ ret = Title(call.bundle_id.last)
    /\ ret = <<"V", "l", "c", "-", "N", "i", "g", "h", "t">>
    /\ mdls_env[1] = "named"
    /\ Cardinality(DOMAIN app_names) = 3

(***************************************************************************)
(* create_bar_chart on its own.                                            *)
(***************************************************************************)
VSCode == [prefix |-> "com.microsoft", last |-> <<"V", "S", "C", "o", "d", "e">>]
GenBundle(i) == [prefix |-> "com.vendor", last |-> <<"a", "p", "p">> \o Digits(i)]
BarBundle(i) == IF i = 1 THEN VSCode ELSE GenBundle(i)

BarSeconds == {1, 61, 96, 100, 3660}
BarWidths == {30, 10}

BarInputs ==
    UNION { { [i \in 1..n |-> <<BarBundle(i), f[i]>>] : f \in [1..n -> BarSeconds] } :
            n \in 0..MaxBars }

NothingInstalled == [i \in 1..Len(app_dirs) |-> "missing"]

CreateBarChart ==
    \E max_width \in BarWidths :
        /\ call = NoCall
        /\ \E r \in create_bar_chart(app_names, mdls_env, arg, max_width) :
               /\ call' = [op |-> "create_bar_chart", usage_data |-> arg,
                           max_width |-> max_width]
               /\ ret' = r.lines
               /\ app_names' = r.cache
               /\ lookups' = [static |-> r.static, mdls |-> r.mdls]
        /\ raised' = FALSE
        /\ stdout' = <<>>
        /\ UNCHANGED <<env, open_conns, files, arg>>

InitBar ==
    /\ Fresh
    /\ db_state = "absent"
    /\ zobject = <<>>
    /\ now = 0
    /\ utc_offset = 0
    /\ mdls_env = NothingInstalled
    /\ arg \in BarInputs
NextBar == CreateBarChart
SpecBar == InitBar /\ [][NextBar]_vars

CountGlyph(text, glyph) == Cardinality({i \in 1..Len(text) : text[i] = glyph})

\* a call of create_bar_chart on a non-empty list of positive durations
BarCall ==
    /\ call.op = "create_bar_chart"
    /\ call.usage_data # <<>>
    /\ \A i \in 1..Len(call.usage_data) : call.usage_data[i][2] > 0

\* C5: every bar is max_width glyphs long, filled ones then empty ones, and
\* a record with the list's maximum seconds has all max_width filled.
C5_MaxBarIsFull ==
    BarCall =>
        /\ Len(ret) = Len(call.usage_data)
        /\ \A i \in 1..Len(ret) :
               LET bar == ret[i][2]
                   filled == CountGlyph(bar, Filled)
               IN  /\ Len(bar) = call.max_width
                   /\ filled + CountGlyph(bar, Empty) = call.max_width
                   /\ \A j \in 1..Len(bar) : (bar[j] = Filled) <=> (j <= filled)
                   /\ (\A k \in 1..Len(call.usage_data) :
                           call.usage_data[k][2] <= call.usage_data[i][2])
                      => filled = call.max_width /\ CountGlyph(bar, Empty) = 0

C5_Witness ==
    /\ BarCall
    /\ Len(ret) = 3
    /\ CountGlyph(ret[2][2], Filled) = 30
    /\ CountGlyph(ret[1][2], Filled) < 30
    /\ CountGlyph(ret[3][2], Filled) = 30

\* C6 as claimed: the filled glyphs number round(seconds / max_seconds * max_width).
C6_BarIsRounded ==
    BarCall =>
        \A i \in 1..Len(ret) :
            CountGlyph(ret[i][2], Filled)
                = Round(call.usage_data[i][2] * call.max_width,
                        MaxSecondsOf(call.usage_data))

\* C6, amended: the filled glyphs number seconds / max_seconds * max_width
\* cut down to a whole number, and the rest of max_width is empty glyphs.
C6_BarIsTruncated ==
    BarCall =>
        \A i \in 1..Len(ret) :
            LET exact == call.usage_data[i][2] * call.max_width
                m == MaxSecondsOf(call.usage_data)
                filled == CountGlyph(ret[i][2], Filled)
            IN  /\ filled * m <= exact
                /\ exact < (filled + 1) * m
                /\ CountGlyph(ret[i][2], Empty) = call.max_width - filled

\* 96 of 100 seconds at width 30 is 28.8: 28 glyphs are filled, not 29
C6_Witness ==
    /\ BarCall
    /\ call.max_width = 30
    /\ Len(ret) = 2
    /\ call.usage_data[1][2] = 96
    /\ call.usage_data[2][2] = 100
    /\ CountGlyph(ret[1][2], Filled) = 28

(***************************************************************************)
(* The hourly histogram: rows are logged, get_hourly_usage queries them,   *)
(* create_hourly_chart draws its result or a mapping handed to it.         *)
(***************************************************************************)
Safari == [prefix |-> "com.apple", last |-> <<"S", "a", "f", "a", "r", "i">>]
Chrome == [prefix |-> "com.google", last |-> <<"C", "h", "r", "o", "m", "e">>]

Row(stream, value, start_unix, duration) ==
    [ZSTREAMNAME |-> stream, ZVALUESTRING |-> value,
     ZSTARTDATE |-> start_unix - epoch_offset,
     ZENDDATE |-> start_unix - epoch_offset + duration]

\* the rows that may be logged when the clock reads t
RowChoices(t) ==
    { Row("/app/usage", Value(Safari), t - 3 * SecondsPerHour, 100),
      Row("/app/inFocus", Value(Chrome), t - 2 * SecondsPerHour - 30, 4000),
      Row("/app/usage", Value(Safari), t - 3 * SecondsPerHour + 600, 70),
      Row("/display/isBacklit", Value(Safari), t - SecondsPerHour, 100),
      Row("/app/usage", NULL, t - SecondsPerHour, 100),
      Row("/app/usage", Value(EmptyString), t - SecondsPerHour, 100),
      Row("/app/usage", Value(Safari), t - SecondsPerDay, 100),
      Row("/app/usage", Value(Chrome), t - 5 * SecondsPerHour, 60),
      Row("/app/inFocus", Value(Chrome), t - 5 * SecondsPerDay, 130) }

DayChoices == {1, 7}
Clocks == {1793872800}
TimeZones == {0, 28800}
StoreStates == {"absent", "inaccessible", "query_error", "ok"}

\* the operating system logs an interval
LogRow ==
    \E row \in RowChoices(now) :
        /\ Len(zobject) < MaxRows
        /\ zobject' = Append(zobject, row)
        /\ UNCHANGED <<db_state, now, utc_offset, mdls_env, app_names, open_conns,
                       stdout, files, call, ret, raised, lookups, arg>>

GetHourlyUsage ==
    \E days \in DayChoices :
        \E u \in get_hourly_usage(db_state, zobject, now, utc_offset, days) :
            /\ open_conns + u.leaked <= MaxConns
            /\ call' = [op |-> "get_hourly_usage", days |-> days]
            /\ ret' = u.hourly
            /\ stdout' = u.out
            /\ open_conns' = open_conns + u.leaked
            /\ raised' = FALSE
            /\ UNCHANGED <<env, app_names, files, lookups, arg>>

HourlyHeights == {8, 3}

\* the mappings create_hourly_chart is handed directly
HourlyInputs ==
    { EmptyDict,
      [h \in 0..23 |-> 0],
      [h \in 0..23 |-> (h * 37) % 101],
      [h \in 0..23 |-> IF h = 9 THEN 16 ELSE IF h % 2 = 0 THEN h \div 2 + 1 ELSE 0],
      [h \in 0..11 |-> 61 + 100 * h] }

\* create_hourly_chart is handed a mapping directly, or what the
\* get_hourly_usage before it returned
CreateHourlyChart ==
    \E max_height \in HourlyHeights :
        \E hourly_usage \in IF call.op = "get_hourly_usage" THEN {ret} ELSE HourlyInputs :
            /\ call.op # "create_hourly_chart"
            /\ call' = [op |-> "create_hourly_chart", hourly_usage |-> hourly_usage,
                        max_height |-> max_height]
            /\ ret' = create_hourly_chart(hourly_usage, max_height)
            /\ stdout' = <<>>
            /\ raised' = FALSE
            /\ UNCHANGED <<env, app_names, open_conns, files, lookups, arg>>

InitHourly ==
    /\ Fresh
    /\ db_state \in StoreStates
    /\ zobject = <<>>
    /\ now \in Clocks
    /\ utc_offset \in TimeZones
    /\ mdls_env = NothingInstalled
    /\ arg = 0
NextHourly == LogRow \/ GetHourlyUsage \/ CreateHourlyChart
SpecHourly == InitHourly /\ [][NextHourly]_vars

\* the divisor of create_hourly_chart: the largest bucket, or 1 if that is 0
Divisor(hourly_usage) ==
    IF \A h \in DOMAIN hourly_usage : hourly_usage[h] = 0 THEN 1
    ELSE CHOOSE m \in {hourly_usage[h] : h \in DOMAIN hourly_usage} :
             \A h \in DOMAIN hourly_usage : hourly_usage[h] <= m

\* a call of create_hourly_chart on a mapping of the 24 hours
HourlyChartCall ==
    /\ call.op = "create_hourly_chart"
    /\ DOMAIN call.hourly_usage = 0..23

FilledCells(chart, max_height) ==
    {<<k, c>> \in (1..max_height) \X (1..24) : chart[k][c] = Filled}

\* C7 as claimed: the cell of column h at level L is filled iff
\* round(bucket[h] / max_bucket_value * levels) >= L.
C7_ColumnIsRounded ==
    HourlyChartCall =>
        LET max_bucket_value == Divisor(call.hourly_usage)
        IN  \A k \in 1..call.max_height, h \in 0..23 :
                LET level == call.max_height + 1 - k
                IN  (ret[k][h + 1] = Filled)
                    <=> Round(call.hourly_usage[h] * call.max_height,
                              max_bucket_value) >= level

\* C7, amended: max_height rows, top level first, then the separator and the
\* hour labels; the cell of column h at level L is filled iff
\* bucket[h] / max_bucket_value * levels, cut down to a whole number, is at
\* least L; with all buckets zero the divisor is 1 and no cell is filled.
C7_ColumnIsTruncated ==
    HourlyChartCall =>
        /\ Len(ret) = call.max_height + 2
        /\ LET max_bucket_value == Divisor(call.hourly_usage)
           IN  \A k \in 1..call.max_height :
                   /\ Len(ret[k]) = 24
                   /\ \A h \in 0..23 :
                          LET level == call.max_height + 1 - k
                          IN  /\ ret[k][h + 1] \in {Filled, " "}
                              /\ (ret[k][h + 1] = Filled)
                                 <=> call.hourly_usage[h] * call.max_height
                                         >= level * max_bucket_value
        /\ ret[call.max_height + 1] = [c \in 1..24 |-> "-"]
        /\ ret[call.max_height + 2] =
               <<" ", "0", " ", " ", "3", " ", " ", "6", " ", " ", "9", " ",
                 "1", "2", " ", "1", "5", " ", "1", "8", " ", "2", "1", " ">>
        /\ (\A h \in 0..23 : call.hourly_usage[h] = 0)
               => FilledCells(ret, call.max_height) = {}

\* 12 of 16 seconds at 8 levels is 6 and 11 of 16 is 5.5: the column of
\* hour 22 is filled up to level 6, that of hour 20 up to level 5 and not 6,
\* and that of the largest bucket to the top
C7_Witness ==
    /\ HourlyChartCall
    /\ call.max_height = 8
    /\ call.hourly_usage[9] = 16
    /\ call.hourly_usage[22] = 12
    /\ call.hourly_usage[20] = 11
    /\ ret[2][23] = " "
    /\ ret[3][23] = Filled
    /\ ret[3][21] = " "
    /\ ret[4][21] = Filled
    /\ ret[1][10] = Filled

\* the all-zero histogram is drawn, with no filled cell
C7_WitnessZero ==
    /\ HourlyChartCall
    /\ \A h \in 0..23 : call.hourly_usage[h] = 0
    /\ Len(ret) = 10

\* the rows get_hourly_usage(days) counts: tracked stream, an application id,
\* started after the window's boundary, longer than 60 seconds
Qualifying(rows, t, days) ==
    {i \in 1..Len(rows) :
        /\ rows[i].ZSTREAMNAME \in {"/app/usage", "/app/inFocus"}
        /\ ~rows[i].ZVALUESTRING.null
        /\ rows[i].ZVALUESTRING.value # EmptyString
        /\ rows[i].ZSTARTDATE + epoch_offset > t - days * SecondsPerDay
        /\ rows[i].ZENDDATE - rows[i].ZSTARTDATE > 60}

\* C9: a successful get_hourly_usage returns the keys 0..23, each bucket the
\* sum of the full durations of the qualifying intervals that start in that
\* hour, so that the buckets add up to the qualifying durations.
C9_HourlyBuckets ==
    [][(call'.op = "get_hourly_usage" /\ db_state' = "ok" /\ UNCHANGED env) =>
        LET q == Qualifying(zobject, now, call'.days)
            dur == [i \in q |-> zobject[i].ZENDDATE - zobject[i].ZSTARTDATE]
            hour == [i \in q |->
                        ((zobject[i].ZSTARTDATE + epoch_offset + utc_offset)
                             \div SecondsPerHour) % 24]
        IN  /\ DOMAIN ret' = 0..23
            /\ \A h \in 0..23 : ret'[h] = SumOver({i \in q : hour[i] = h}, dur)
            /\ SumOver(0..23, ret') = SumOver(q, dur)
    ]_vars

\* an interval of 4000 seconds that starts half a minute before the hour is
\* counted in its start hour whole, beside a bucket of two intervals
C9_Witness ==
    /\ call.op = "get_hourly_usage"
    /\ db_state = "ok"
    /\ utc_offset = 0
    /\ Len(zobject) = 2
    /\ DOMAIN ret = 0..23
    /\ ret[7] = 4100
    /\ ret[8] = 0

(***************************************************************************)
(* A long-lived ScreenTimeChecker: its methods are called in any order     *)
(* while the store comes and goes and the log grows.                       *)
(***************************************************************************)
\* the rows that may be logged for the reports when the clock reads t
UsageRows(t) ==
    { Row("/app/usage", Value(Safari), t - 3 * SecondsPerHour, 100),
      Row("/app/inFocus", Value(Chrome), t - 2 * SecondsPerHour, 40),
      Row("/app/usage", Value(Safari), t - 5 * SecondsPerDay, 130),
      Row("/app/usage", NULL, t - SecondsPerHour, 100) }

LogUsage ==
    \E row \in UsageRows(now) :
        /\ Len(zobject) < MaxLog
        /\ zobject' = Append(zobject, row)
        /\ UNCHANGED <<db_state, now, utc_offset, mdls_env, app_names, open_conns,
                       stdout, files, call, ret, raised, lookups, arg>>

\* the database file appears, disappears, loses its permission or its schema
SetStore ==
    \E state \in StoreStates :
        /\ db_state' = state
        /\ UNCHANGED <<zobject, now, utc_offset, mdls_env, app_names, open_conns,
                       stdout, files, call, ret, raised, lookups, arg>>

\* the garbage collector finalizes a connection that was left open
Collect ==
    /\ open_conns > 0
    /\ open_conns' = open_conns - 1
    /\ UNCHANGED <<env, app_names, stdout, files, call, ret, raised, lookups, arg>>

CheckDatabase ==
    LET chk == check_database(db_state)
    IN  /\ call' = [op |-> "check_database"]
        /\ ret' = chk.ok
        /\ stdout' = chk.out
        /\ raised' = FALSE
        /\ files' = <<>>
        /\ lookups' = NoLookups
        /\ UNCHANGED <<env, app_names, open_conns, arg>>

GetUsageData ==
    \E days \in DayChoices :
        \E u \in get_usage_data(db_state, zobject, now, days) :
            /\ open_conns + u.leaked <= MaxConns
            /\ call' = [op |-> "get_usage_data", days |-> days]
            /\ ret' = u.usage
            /\ stdout' = u.out
            /\ open_conns' = open_conns + u.leaked
            /\ raised' = u.raised
            /\ files' = <<>>
            /\ lookups' = NoLookups
            /\ UNCHANGED <<env, app_names, arg>>

PrintUsageReport ==
    \E days \in DayChoices, debug \in BOOLEAN, visual \in BOOLEAN :
        \E o \in report(db_state, zobject, now, mdls_env, app_names, days, debug, visual) :
            /\ open_conns + o.leaked <= MaxConns
            /\ call' = [op |-> "print_usage_report", days |-> days, debug |-> debug,
                        visual |-> visual]
            /\ ret' = <<>>
            /\ stdout' = o.out
            /\ app_names' = o.cache
            /\ lookups' = [static |-> o.static, mdls |-> o.mdls]
            /\ open_conns' = open_conns + o.leaked
            /\ raised' = o.raised
            /\ files' = o.written
            /\ UNCHANGED <<env, arg>>

ExportToJson ==
    \E days \in DayChoices :
        \E o \in export(db_state, zobject, now, mdls_env, app_names, days) :
            /\ open_conns + o.leaked <= MaxConns
            /\ call' = [op |-> "export_to_json", days |-> days]
            /\ ret' = <<>>
            /\ stdout' = o.out
            /\ app_names' = o.cache
            /\ lookups' = [static |-> o.static, mdls |-> o.mdls]
            /\ open_conns' = open_conns + o.leaked
            /\ raised' = o.raised
            /\ files' = o.written
            /\ UNCHANGED <<env, arg>>

Init ==
    /\ Fresh
    /\ db_state \in StoreStates
    /\ zobject = <<>>
    /\ now \in Clocks
    /\ utc_offset = 0
    /\ mdls_env = NothingInstalled
    /\ arg = 0
Next ==
    \/ LogUsage
    \/ SetStore
    \/ Collect
    \/ CheckDatabase
    \/ GetUsageData
    \/ GetHourlyUsage
    \/ PrintUsageReport
    \/ ExportToJson
Spec == Init /\ [][Next]_vars

\* C3 as claimed: whatever was called, no connection is left open.
C3_NoConnectionLeftOpen == open_conns = 0

\* what the store-failure handlers print
FailureNotes ==
    {"db_not_found", "need_macos", "db_no_access", "fix_heading", "fix_step_1",
     "fix_step_2", "fix_step_3", "query_failed"}

\* no application has more than 60 seconds of tracked use in the window
NothingToReport(rows, t, days) ==
    LET hit == {i \in 1..Len(rows) :
                   /\ rows[i].ZSTREAMNAME \in {"/app/usage", "/app/inFocus"}
                   /\ ~rows[i].ZVALUESTRING.null
                   /\ rows[i].ZVALUESTRING.value # EmptyString
                   /\ rows[i].ZSTARTDATE + epoch_offset > t - days * SecondsPerDay}
        dur == [i \in hit |-> rows[i].ZENDDATE - rows[i].ZSTARTDATE]
    IN  \A i \in hit :
            SumOver({j \in hit : rows[j].ZVALUESTRING.value = rows[i].ZVALUESTRING.value},
                    dur) <= 60

Kinds(out) == {out[i].kind : i \in 1..Len(out)}

\* C4: with the database file absent, inaccessible or failing the query,
\* get_usage_data prints a message and returns the empty list without
\* raising; then, and when the query finds nothing to report,
\* print_usage_report and export_to_json end with their no-data message and
\* print nothing else of their own, write no file and resolve no name.
C4_FailuresEndInNoData ==
    [][(UNCHANGED env /\ open_conns' >= open_conns
        /\ call'.op \in {"get_usage_data", "print_usage_report", "export_to_json"}
        /\ (db_state # "ok" \/ NothingToReport(zobject, now, call'.days))) =>
        /\ ~raised'
        /\ files' = <<>>
        /\ app_names' = app_names
        /\ db_state # "ok" =>
               /\ stdout' # <<>>
               /\ stdout'[1].kind \in FailureNotes
               /\ (db_state = "absent") = (stdout'[1].kind = "db_not_found")
               /\ (db_state = "inaccessible") = (stdout'[1].kind = "db_no_access")
               /\ (db_state = "query_error") = (stdout'[1].kind = "query_failed")
        /\ call'.op = "get_usage_data" =>
               /\ ret' = <<>>
               /\ Kinds(stdout') \subseteq FailureNotes
        /\ call'.op = "print_usage_report" =>
               /\ stdout'[Len(stdout')].kind = "no_data"
               /\ Kinds(SubSeq(stdout', 1, Len(stdout') - 1)) \subseteq FailureNotes
        /\ call'.op = "export_to_json" =>
               /\ stdout'[Len(stdout')].kind = "no_export_data"
               /\ Kinds(SubSeq(stdout', 1, Len(stdout') - 1)) \subseteq FailureNotes
    ]_vars

\* the query fails under a report: its message, then the no-data message
C4_Witness ==
    /\ call.op = "print_usage_report"
    /\ db_state = "query_error"
    /\ Len(zobject) = 2
    /\ ~NothingToReport(zobject, now, call.days)
    /\ Kinds(stdout) = {"query_failed", "no_data"}
    /\ ~raised

\* the query succeeds and finds two intervals, neither with an application
\* to report: the export ends in its no-data message
C4_WitnessEmpty ==
    /\ call.op = "export_to_json"
    /\ db_state = "ok"
    /\ Len(zobject) = 2
    /\ stdout = <<line("no_export_data", <<>>)>>
    /\ files = <<>>

(***************************************************************************)
(* The ranked list and its page of 20: print_usage_report on logs of up to *)
(* MaxApps applications.                                                   *)
(***************************************************************************)
PageBundle(i) == IF i = 1 THEN Safari ELSE GenBundle(i)

\* the seconds application i has used, in each shape of log: all different;
\* the 20th and the 21st equal; or two intervals of which neither passes
\* the 60 seconds alone
PageShapes == {"distinct", "tie", "split"}
PageSeconds(shape, i) ==
    IF shape = "tie" /\ i = 21 THEN 5000 - 100 * 20
    ELSE IF shape = "split" THEN 50 + i
    ELSE 5000 - 100 * i

\* the rows of application i, logged within the last day
PageRows(shape, t, i) ==
    IF shape = "split"
    THEN <<Row("/app/usage", Value(PageBundle(i)), t - 2 * SecondsPerHour, PageSeconds(shape, i)),
           Row("/app/inFocus", Value(PageBundle(i)), t - SecondsPerHour, 40)>>
    ELSE <<Row("/app/usage", Value(PageBundle(i)), t - 2 * SecondsPerHour, PageSeconds(shape, i))>>

\* the log of n applications, behind one interval too short to count
PageLog(shape, t, n) ==
    <<Row("/app/usage", Value(Chrome), t - SecondsPerHour, 60)>>
    \o [k \in 1..(n * Len(PageRows(shape, t, 1))) |->
           PageRows(shape, t, ((k - 1) \div Len(PageRows(shape, t, 1))) + 1)
                   [((k - 1) % Len(PageRows(shape, t, 1))) + 1]]

InitPage ==
    /\ Fresh
    /\ db_state = "ok"
    /\ now \in Clocks
    /\ \E shape \in PageShapes, n \in 0..MaxApps : zobject = PageLog(shape, now, n)
    /\ utc_offset = 0
    /\ mdls_env = NothingInstalled
    /\ arg = 0
NextPage == PrintUsageReport
SpecPage == InitPage /\ [][NextPage]_vars

IsListed(l) == l.kind \in {"record", "more"}

Least(a, b) == IF a < b THEN a ELSE b

\* the numbered lines of the first 20 records of the list u
FirstPage(u, mdls) ==
    [i \in 1..Least(Len(u), 20) |->
        line("record", <<i, get_app_name(EmptyCache, mdls, u[i][1]).name,
                         format_time(u[i][2]), <<u[i][2], SumSeconds(u)>>>>)]

\* the one line for what the first 20 leave out, if anything
Remainder(u) ==
    IF Len(u) > 20
    THEN <<line("more", <<Len(u) - 20,
                          format_time(SumSeconds(u) - SumSeconds(SubSeq(u, 1, 20)))>>)>>
    ELSE <<>>

\* C1: the ranked list of n records prints its first 20 as numbered lines
\* and then, if n > 20, one line with the n - 20 left out and the time of the
\* total that the 20 shown do not account for; if n <= 20 it prints all n
\* and no such line.
C1_PageOfTwenty ==
    (call.op = "print_usage_report" /\ ~call.visual) =>
        \E u \in usage_sql(zobject, Since(now, call.days)) :
            SelectSeq(stdout, IsListed) = FirstPage(u, mdls_env) \o Remainder(u)

\* 22 applications: 20 lines, then the line for the 2 left out
C1_Witness ==
    /\ call.op = "print_usage_report"
    /\ ~call.visual
    /\ Len(zobject) > 22
    /\ Len(SelectSeq(stdout, IsListed)) = 21
    /\ \E i \in 1..Len(stdout) : stdout[i].kind = "more" /\ stdout[i].args[1] = 2

(***************************************************************************)
(* The command line: one run of main per behaviour, on the store as it is. *)
(***************************************************************************)
Script == <<"s", "c", "r", "e", "e", "n", "_", "t", "i", "m", "e", "_", "c", "h", "e",
            "c", "k", "e", "r", ".", "p", "y">>

Commands ==
    Cmd1 \cup {<<"7", "d">>, <<"m", "o", "n", "t", "h">>, <<"v">>,
              <<"V", "I", "S", "U", "A", "L">>, CmdExport, CmdDebug, CmdHelp,
              <<"3">>, <<"-", "2">>, <<"1", "_", "0">>, <<"a", "b", "c">>, <<"7", "x">>,
              <<"2", ".", "5">>}

DayArgs ==
    { <<"7">>, <<" ", "3">>, <<"a", "b", "c">>, <<"2", ".", "5">>, <<>>, <<"7", "_">> }

Argvs ==
    {<<Script>>} \cup {<<Script, c>> : c \in Commands}
                 \cup {<<Script, c, d>> : c \in Commands, d \in DayArgs}

Main ==
    \E argv \in Argvs :
        \E o \in main(argv, db_state, zobject, now, mdls_env) :
            /\ call = NoCall
            /\ call' = [op |-> "main", argv |-> argv]
            /\ ret' = <<>>
            /\ stdout' = o.out
            /\ app_names' = o.cache
            /\ lookups' = [static |-> o.static, mdls |-> o.mdls]
            /\ open_conns' = open_conns + o.leaked
            /\ raised' = o.raised
            /\ files' = o.written
            /\ UNCHANGED <<env, arg>>

\* before the run: the log grows and the store is in any condition
Before(A) == call = NoCall /\ A

InitMain == Init
NextMain == Before(LogUsage) \/ Main
SpecMain == InitMain /\ [][NextMain]_vars

\* the token main reads as a day count, if it reads one
DayCountToken(argv) ==
    LET command == LowerText(argv[2])
    IN  IF command \in CmdVisual \cup {CmdExport, CmdDebug}
        THEN IF Len(argv) > 2 THEN <<argv[3]>> ELSE <<>>
        ELSE IF command \in Cmd1 \cup Cmd7 \cup Cmd30 \cup {CmdHelp}
        THEN <<>>
        ELSE <<command>>

\* C2 as claimed: when the day count main is given is no valid integer, main
\* says that the command is unknown and returns normally.
C2_BadDayCountIsUnknownCommand ==
    (call.op = "main" /\ Len(call.argv) > 1) =>
        \A token \in {DayCountToken(call.argv)[i] : i \in 1..Len(DayCountToken(call.argv))} :
            ~ParseInt(token).ok =>
                /\ ~raised
                /\ \E i \in 1..Len(stdout) : stdout[i].kind = "unknown_command"

\* C2 where it holds: the first token
C2_FallbackIsUnknownCommand ==
    (call.op = "main" /\ Len(call.argv) > 1) =>
        LET command == LowerText(call.argv[2])
        IN  (/\ command \notin Cmd1 \cup Cmd7 \cup Cmd30 \cup CmdVisual
             /\ command \notin {CmdExport, CmdDebug, CmdHelp}
             /\ ~ParseInt(command).ok) =>
                /\ ~raised
                /\ stdout = <<line("unknown_command", <<command>>), line("see_help", <<>>)>>

====
